---- MODULE Spec2Model ----
(***************************************************************************)
(* A model of the SVD visualizer page (src/src/app/page.tsx): the numeric  *)
(* core (parseCellValue, toNumericMatrix, multiplyMatrixVector, transpose, *)
(* buildSigmaMatrix) as operators, and the Home component as a state       *)
(* machine whose actions are the onChange handlers followed by the         *)
(* re-render that recomputes the memoised pipeline.                        *)
(*                                                                         *)
(* Representation.                                                         *)
(*  - A string is a sequence of one-character strings: "3.14" is           *)
(*    <<"3", ".", "1", "4">>.                                              *)
(*  - A JavaScript number is a record [k, m, e]: k = "fin" stands for the  *)
(*    decimal m * 10^e (normalised: m not divisible by 10, zero is m = 0,  *)
(*    e = 0), k = "nan" for NaN and k = "inf" for +/-Infinity (m = 1 or    *)
(*    -1).  Arithmetic on finite numbers is exact decimal arithmetic: the  *)
(*    rounding of IEEE doubles is not modelled, the overflow of a parsed   *)
(*    literal to Infinity is.                                              *)
(*  - An array is a sequence (index i of the code is i + 1 here); reading  *)
(*    past its end gives Undefined, as in JavaScript.                      *)
(*  - A string that is only compared (a plot key, a CSS keyword, a label)  *)
(*    is a TLA+ string.                                                    *)
(***************************************************************************)
EXTENDS Integers, Sequences, FiniteSets, TLC

VARIABLES
  matrixValues,   \* Home: useState<MatrixString>(defaultMatrix)
  vectorValues,   \* Home: useState<string[]>(defaultVector)
  numericMatrix,  \* Home: useMemo(toNumericMatrix(matrixValues))
  numericVector,  \* Home: useMemo(vectorValues.map(parseCellValue))
  productVector,  \* Home: useMemo(multiplyMatrixVector(numericMatrix, numericVector))
  svdArg,         \* the matrix the last call SVD(numericMatrix) was given
  svdReturn,      \* what the last call SVD(numericMatrix) of svd-js did
  svdResult,      \* Home: useMemo(try { ... } catch { return null })
  vtVector,       \* Home: useMemo, stage 1 of the chain
  sigmaVector,    \* Home: useMemo, stage 2 of the chain
  uVector,        \* Home: useMemo, stage 3 of the chain
  crashed,        \* an exception escaped the render of Home
  edits,          \* number of onChange events handled so far
  expandedPlot,   \* Home: useState<PlotKey | null>(null)
  bodyOverflow,   \* document.body.style.overflow
  previousOverflow, \* FullScreenPlot: the const of the effect's last run
  call            \* one application of a function of the numeric core

dataVars == <<matrixValues, vectorValues, numericMatrix, numericVector,
              productVector, svdArg, svdReturn, svdResult, vtVector,
              sigmaVector, uVector, crashed, edits>>

plotVars == <<expandedPlot, bodyOverflow, previousOverflow>>

pageVars == <<dataVars, plotVars>>

vars == <<dataVars, plotVars, call>>

-----------------------------------------------------------------------------
(* Bounds of the model.                                                    *)

\* longest enumerated cell text
MaxLen == 3
\* most rows of an enumerated matrix
MaxRows == 2
\* most columns of an enumerated matrix, and longest enumerated vector
MaxCols == 2
\* most onChange events in one behaviour
MaxEdits == 2
\* largest enumerated mantissa of a formatted number
MaxMantissa == 25
\* most decimals of an enumerated formatted number
MaxDecimals == 6

-----------------------------------------------------------------------------
(* JavaScript values.                                                      *)

Undefined == [k |-> "undefined", m |-> 0, e |-> 0]

Null == [k |-> "null", m |-> 0, e |-> 0]

NaN == [k |-> "nan", m |-> 0, e |-> 0]

Infinity(sign) == [k |-> "inf", m |-> sign, e |-> 0]

RECURSIVE Normalise(_, _)
Normalise(m, e) ==
  IF m = 0 THEN [k |-> "fin", m |-> 0, e |-> 0]
  ELSE IF m % 10 = 0 THEN Normalise(m \div 10, e + 1)
  ELSE [k |-> "fin", m |-> m, e |-> e]

\* the number m * 10^e
Dec(m, e) == Normalise(m, e)

\* the integer i as a number
Num(i) == Normalise(i, 0)

RECURSIVE Pow10(_)
Pow10(n) == IF n <= 0 THEN 1 ELSE 10 * Pow10(n - 1)

Abs(i) == IF i < 0 THEN -i ELSE i

RECURSIVE NumDigits(_)
NumDigits(i) == IF i < 10 THEN 1 ELSE 1 + NumDigits(i \div 10)

\* a + b of two finite numbers
NumAdd(a, b) ==
  LET lo == IF a.e < b.e THEN a.e ELSE b.e
  IN  Normalise(a.m * Pow10(a.e - lo) + b.m * Pow10(b.e - lo), lo)

\* a * b of two finite numbers
NumMul(a, b) == Normalise(a.m * b.m, a.e + b.e)

\* Number.isFinite
NumberIsFinite(x) == x.k = "fin"

\* array[index] of the code is not undefined, index counted from 0
Has(array, index) == index + 1 \in DOMAIN array

\* array[index] of the code, index counted from 0
At(array, index) ==
  IF Has(array, index) THEN array[index + 1] ELSE Undefined

\* x ?? d
Coalesce(x, d) == IF x = Undefined \/ x = Null THEN d ELSE x

-----------------------------------------------------------------------------
(* parseFloat (ECMAScript 19.2.4): trim leading white space, take the      *)
(* longest prefix that is a StrDecimalLiteral, NaN when there is none.     *)

WhiteSpace == {" ", "\t", "\n"}

Digits == <<"0", "1", "2", "3", "4", "5", "6", "7", "8", "9">>

IsDigit(c) == \E d \in DOMAIN Digits : Digits[d] = c

DigitValue(c) == (CHOOSE d \in DOMAIN Digits : Digits[d] = c) - 1

\* the character at position i (from 1), "" past the end
CharAt(s, i) == IF i \in DOMAIN s THEN s[i] ELSE ""

RECURSIVE SkipWhiteSpace(_, _)
SkipWhiteSpace(s, i) ==
  IF CharAt(s, i) \in WhiteSpace THEN SkipWhiteSpace(s, i + 1) ELSE i

\* the first position from i on that holds no digit
RECURSIVE ScanDigits(_, _)
ScanDigits(s, i) == IF IsDigit(CharAt(s, i)) THEN ScanDigits(s, i + 1) ELSE i

\* the value of the digits s[i .. j-1], after the digits worth acc
RECURSIVE DigitsValue(_, _, _, _)
DigitsValue(s, i, j, acc) ==
  IF i >= j THEN acc ELSE DigitsValue(s, i + 1, j, 10 * acc + DigitValue(s[i]))

InfinityText == <<"I", "n", "f", "i", "n", "i", "t", "y">>

HasInfinityAt(s, i) ==
  \A n \in DOMAIN InfinityText : CharAt(s, i + n - 1) = InfinityText[n]

\* the first four significant digits of the positive integer i
Lead4(i) ==
  LET d == NumDigits(i)
  IN  IF d <= 4 THEN i * Pow10(4 - d) ELSE i \div Pow10(d - 4)

\* m * 10^e rounds to Infinity as a double (at least about 1.7977e308)
Overflows(x) ==
  /\ x.m # 0
  /\ LET order == NumDigits(Abs(x.m)) + x.e
     IN  order > 309 \/ (order = 309 /\ Lead4(Abs(x.m)) >= 1798)

parseFloat(string) ==
  LET start == SkipWhiteSpace(string, 1)
      signed == CharAt(string, start) \in {"+", "-"}
      sign == IF CharAt(string, start) = "-" THEN -1 ELSE 1
      intStart == IF signed THEN start + 1 ELSE start
      intEnd == ScanDigits(string, intStart)
      hasDot == CharAt(string, intEnd) = "."
      fracStart == IF hasDot THEN intEnd + 1 ELSE intEnd
      fracEnd == ScanDigits(string, fracStart)
      intLen == intEnd - intStart
      fracLen == fracEnd - fracStart
      hasE == CharAt(string, fracEnd) \in {"e", "E"}
      expSigned == CharAt(string, fracEnd + 1) \in {"+", "-"}
      expSign == IF CharAt(string, fracEnd + 1) = "-" THEN -1 ELSE 1
      expStart == IF expSigned THEN fracEnd + 2 ELSE fracEnd + 1
      expEnd == ScanDigits(string, expStart)
      exponent == IF hasE /\ expEnd > expStart
                  THEN expSign * DigitsValue(string, expStart, expEnd, 0)
                  ELSE 0
      mantissa == DigitsValue(string, fracStart, fracEnd,
                              DigitsValue(string, intStart, intEnd, 0))
      value == Dec(sign * mantissa, exponent - fracLen)
  IN  IF HasInfinityAt(string, intStart) THEN Infinity(sign)
      ELSE IF intLen + fracLen = 0 THEN NaN
      ELSE IF Overflows(value) THEN Infinity(sign)
      ELSE value

\* a missing guard: the parse is returned whatever it is
parseCellValueUnguarded(value) == parseFloat(value)

parseCellValue(value) ==
  LET parsed == parseFloat(value)
  IN  IF NumberIsFinite(parsed) THEN parsed ELSE Num(0)

-----------------------------------------------------------------------------
(* The numeric core.                                                       *)

toNumericMatrix(values) ==
  [r \in DOMAIN values |->
     [c \in DOMAIN values[r] |-> parseCellValue(values[r][c])]]

\* row.reduce((sum, value, index) => sum + value * (vector[index] ?? 0), 0),
\* from position index (from 0) on
RECURSIVE RowReduce(_, _, _, _)
RowReduce(row, vector, index, sum) ==
  IF index >= Len(row) THEN sum
  ELSE RowReduce(row, vector, index + 1,
                 NumAdd(sum, NumMul(row[index + 1],
                                    Coalesce(At(vector, index), Num(0)))))

\* the row's own index used for the vector: every term takes vector[0]
RECURSIVE RowReduceFirst(_, _, _, _)
RowReduceFirst(row, vector, index, sum) ==
  IF index >= Len(row) THEN sum
  ELSE RowReduceFirst(row, vector, index + 1,
                      NumAdd(sum, NumMul(row[index + 1],
                                         Coalesce(At(vector, 0), Num(0)))))

multiplyMatrixVectorFirst(matrix, vector) ==
  [r \in DOMAIN matrix |-> RowReduceFirst(matrix[r], vector, 0, Num(0))]

multiplyMatrixVector(matrix, vector) ==
  [r \in DOMAIN matrix |-> RowReduce(matrix[r], vector, 0, Num(0))]

\* row[0] read in place of row[columnIndex]
transposeFirstColumn(matrix) ==
  IF Has(matrix, 0)
  THEN [columnIndex \in DOMAIN matrix[1] |->
          [r \in DOMAIN matrix |-> Coalesce(At(matrix[r], 0), Num(0))]]
  ELSE <<>>

\* the outer map taken over the rows of the matrix, not over matrix[0]
transposeOverRows(matrix) ==
  IF Has(matrix, 0)
  THEN [columnIndex \in DOMAIN matrix |->
          [r \in DOMAIN matrix |->
             Coalesce(At(matrix[r], columnIndex - 1), Num(0))]]
  ELSE <<>>

transpose(matrix) ==
  IF Has(matrix, 0)
  THEN [columnIndex \in DOMAIN matrix[1] |->
          [r \in DOMAIN matrix |->
             Coalesce(At(matrix[r], columnIndex - 1), Num(0))]]
  ELSE <<>>

\* the diagonal value written to every column of its row
buildSigmaMatrixFilled(diagonal, rows, columns) ==
  [row \in 1..rows |->
     [column \in 1..columns |-> Coalesce(At(diagonal, row - 1), Num(0))]]

buildSigmaMatrix(diagonal, rows, columns) ==
  [row \in 1..rows |->
     [column \in 1..columns |->
        IF row = column THEN Coalesce(At(diagonal, row - 1), Num(0))
        ELSE Num(0)]]

-----------------------------------------------------------------------------
(* formatNumber: Number.prototype.toFixed (ECMAScript 21.1.3.3), then      *)
(* parseFloat, then Intl.NumberFormat("en-US") with at most                *)
(* maximumFractionDigits and at least minimumFractionDigits fraction       *)
(* digits.  Numbers are exact decimals, so the double nearest to a decimal *)
(* literal is that decimal.                                                *)

maximumFractionDigits == 4

minimumFractionDigits == 0

\* the character U+221E, which a string of the model cannot hold
InfinitySign == "U+221E"

Zeros(n) == [i \in 1..n |-> "0"]

\* the decimal digits of the integer n >= 0
RECURSIVE IntText(_)
IntText(n) ==
  IF n < 10 THEN <<Digits[n + 1]>>
  ELSE Append(IntText(n \div 10), Digits[(n % 10) + 1])

\* the digits beyond the f-th fraction digit cut off
ScaledDigitsTruncated(mAbs, e, f) ==
  IF mAbs = 0 THEN <<"0">>
  ELSE IF e + f >= 0 THEN IntText(mAbs) \o Zeros(e + f)
  ELSE LET k == -(e + f)
       IN  IF k > NumDigits(mAbs) THEN <<"0">>
           ELSE IntText(mAbs \div Pow10(k))

\* the digits of the integer n for which n / 10^f - mAbs * 10^e is as close
\* to zero as possible, the larger n if there are two
ScaledDigits(mAbs, e, f) ==
  IF mAbs = 0 THEN <<"0">>
  ELSE IF e + f >= 0 THEN IntText(mAbs) \o Zeros(e + f)
  ELSE LET k == -(e + f)
       IN  IF k > NumDigits(mAbs) THEN <<"0">>
           ELSE LET p == Pow10(k)
                    up == IF 2 * (mAbs % p) >= p THEN 1 ELSE 0
                IN  IntText(mAbs \div p + up)

\* Number::toString of mAbs * 10^e >= 10^21, mAbs not divisible by 10
ExponentialText(mAbs, e) ==
  LET digits == IntText(mAbs)
      n == Len(digits) + e
  IN  <<digits[1]>>
      \o (IF Len(digits) > 1 THEN <<".">> \o Tail(digits) ELSE <<>>)
      \o <<"e", "+">> \o IntText(n - 1)

toFixed(x, fractionDigits) ==
  IF x.k = "nan" THEN <<"N", "a", "N">>
  ELSE IF x.k = "inf"
  THEN (IF x.m < 0 THEN <<"-">> ELSE <<>>) \o InfinityText
  ELSE LET s == IF x.m < 0 THEN <<"-">> ELSE <<>>
           a == Abs(x.m)
       IN  IF a # 0 /\ NumDigits(a) + x.e > 21
           THEN s \o ExponentialText(a, x.e)
           ELSE LET n == ScaledDigits(a, x.e, fractionDigits)
                    m == IF Len(n) <= fractionDigits
                         THEN Zeros(fractionDigits + 1 - Len(n)) \o n
                         ELSE n
                    k == Len(m)
                IN  IF fractionDigits = 0 THEN s \o m
                    ELSE s \o SubSeq(m, 1, k - fractionDigits) \o <<".">>
                           \o SubSeq(m, k - fractionDigits + 1, k)

\* the digits s without zeros at the end, at least least of them kept
RECURSIVE StripZeros(_, _)
StripZeros(s, least) ==
  IF Len(s) > least /\ s[Len(s)] = "0"
  THEN StripZeros(SubSeq(s, 1, Len(s) - 1), least)
  ELSE s

\* the en-US grouping of integer digits: a comma before every three
RECURSIVE Group(_)
Group(s) ==
  IF Len(s) <= 3 THEN s
  ELSE Group(SubSeq(s, 1, Len(s) - 3)) \o <<",">>
       \o SubSeq(s, Len(s) - 2, Len(s))

\* numberFormatter.format(x); negativeZero says that x is -0, which the
\* number records do not tell from 0
numberFormatterFormat(x, negativeZero) ==
  IF x.k = "nan" THEN <<"N", "a", "N">>
  ELSE IF x.k = "inf" THEN (IF x.m < 0 THEN <<"-">> ELSE <<>>) \o <<InfinitySign>>
  ELSE LET f == maximumFractionDigits
           s == IF x.m < 0 \/ negativeZero THEN <<"-">> ELSE <<>>
           n == ScaledDigits(Abs(x.m), x.e, f)
           m == IF Len(n) <= f THEN Zeros(f + 1 - Len(n)) \o n ELSE n
           k == Len(m)
           fraction == StripZeros(SubSeq(m, k - f + 1, k), minimumFractionDigits)
       IN  s \o Group(SubSeq(m, 1, k - f))
           \o (IF fraction = <<>> THEN <<>> ELSE <<".">> \o fraction)

formatNumber(value) ==
  LET text == toFixed(value, 4)
      parsed == parseFloat(text)
      negativeZero == parsed = Num(0) /\ CharAt(text, 1) = "-"
  IN  numberFormatterFormat(parsed, negativeZero)

-----------------------------------------------------------------------------
(* The Home component.                                                     *)

\* the text of a string literal of one character
Text1(c) == <<c>>

defaultMatrix ==
  << <<Text1("1"), Text1("0"), Text1("0")>>,
     <<Text1("0"), Text1("1"), Text1("0")>>,
     <<Text1("0"), Text1("0"), Text1("1")>> >>

defaultVector == <<Text1("1"), Text1("0"), Text1("0")>>

\* the texts an onChange event delivers in the model: a cleared field, a
\* digit, a negative decimal fraction
CellTexts == { <<>>, <<"2">>, <<"-", ".", "5">> }

(* SVD of svd-js is not part of the repository: a call either throws or    *)
(* returns {u, q, v}, and which of the two, and with what factors, is the  *)
(* library's choice.  The model lets it choose among a throw, the factors  *)
(* of the identity, and factors whose u, q and v all differ, whose v is    *)
(* not symmetric and whose singular values are not in descending order     *)
(* (the code neither sorts them nor relies on their order).                *)
Identity3 ==
  << <<Num(1), Num(0), Num(0)>>,
     <<Num(0), Num(1), Num(0)>>,
     <<Num(0), Num(0), Num(1)>> >>

RotZ ==
  << <<Num(0), Num(-1), Num(0)>>,
     <<Num(1), Num(0), Num(0)>>,
     <<Num(0), Num(0), Num(1)>> >>

RotX ==
  << <<Num(1), Num(0), Num(0)>>,
     <<Num(0), Num(0), Num(-1)>>,
     <<Num(0), Num(1), Num(0)>> >>

SvdThrows == [throws |-> TRUE, u |-> <<>>, q |-> <<>>, v |-> <<>>]

SvdOutcomes ==
  { SvdThrows,
    [throws |-> FALSE, u |-> Identity3,
     q |-> <<Num(1), Num(1), Num(1)>>, v |-> Identity3],
    [throws |-> FALSE, u |-> RotZ,
     q |-> <<Num(2), Num(3), Num(0)>>, v |-> RotX] }

\* numericMatrix[0]?.length ?? 0
FirstRowLength(matrix) ==
  IF Has(matrix, 0) THEN Len(matrix[1]) ELSE 0

\* V used where its transpose is meant
svdTryNoTranspose(matrix, outcome) ==
  IF outcome.throws THEN [raised |-> TRUE, value |-> Null]
  ELSE LET u == outcome.u
           v == outcome.v
           q == outcome.q
           sigma == buildSigmaMatrix(q, Len(matrix), FirstRowLength(matrix))
       IN  [raised |-> FALSE, value |-> [u |-> u, sigma |-> sigma, vt |-> v]]

\* the body of the try block, given what SVD(numericMatrix) did
svdTry(matrix, outcome) ==
  IF outcome.throws THEN [raised |-> TRUE, value |-> Null]
  ELSE LET u == outcome.u
           v == outcome.v
           q == outcome.q
           sigma == buildSigmaMatrix(q, Len(matrix), FirstRowLength(matrix))
           vt == transpose(v)
       IN  [raised |-> FALSE, value |-> [u |-> u, sigma |-> sigma, vt |-> vt]]

\* the try block without its catch
svdMemoNoCatch(matrix, outcome) == svdTry(matrix, outcome)

\* useMemo(() => { try { ... } catch { return null } }, [numericMatrix])
svdMemo(matrix, outcome) ==
  LET attempt == svdTry(matrix, outcome)
  IN  IF attempt.raised THEN [raised |-> FALSE, value |-> Null] ELSE attempt

Zero3 == <<Num(0), Num(0), Num(0)>>

\* the fallback forgotten: the input vector is passed on
vtVectorMemoNoFallback(result, vector) ==
  IF result = Null THEN vector
  ELSE multiplyMatrixVector(result.vt, vector)

vtVectorMemo(result, vector) ==
  IF result = Null THEN Zero3
  ELSE multiplyMatrixVector(result.vt, vector)

\* stage 2 computed with U in place of sigma
sigmaVectorMemoWrongFactor(result, vtVec) ==
  IF result = Null THEN Zero3
  ELSE multiplyMatrixVector(result.u, vtVec)

sigmaVectorMemo(result, vtVec) ==
  IF result = Null THEN Zero3
  ELSE multiplyMatrixVector(result.sigma, vtVec)

uVectorMemo(result, sigmaVec) ==
  IF result = Null THEN Zero3
  ELSE multiplyMatrixVector(result.u, sigmaVec)

\* the edited row replaced by the new cell alone
setMatrixCellRagged(previous, rowIndex, columnIndex, newValue) ==
  [r \in DOMAIN previous |->
     IF r = rowIndex THEN <<newValue>> ELSE previous[r]]

\* previous.map((existingRow, r) => existingRow.map((cell, c) => ...))
setMatrixCell(previous, rowIndex, columnIndex, newValue) ==
  [r \in DOMAIN previous |->
     [c \in DOMAIN previous[r] |->
        IF r = rowIndex /\ c = columnIndex THEN newValue ELSE previous[r][c]]]

\* the new value written to every component
setVectorCellAll(previous, index, newValue) ==
  [i \in DOMAIN previous |-> newValue]

\* previous.map((cell, i) => (i === index ? newValue : cell))
setVectorCell(previous, index, newValue) ==
  [i \in DOMAIN previous |-> IF i = index THEN newValue ELSE previous[i]]

\* no call of the numeric core is in progress
NoCall == [fn |-> "none", arg |-> <<>>, ret |-> <<>>]

\* numericVector left out of the dependencies of productVector: the product
\* is recomputed only when the matrix changes
RenderStaleProduct(callSvd, outcome) ==
  /\ numericMatrix' = toNumericMatrix(matrixValues')
  /\ numericVector' = [i \in DOMAIN vectorValues' |-> parseCellValue(vectorValues'[i])]
  /\ productVector' = IF callSvd
                      THEN multiplyMatrixVector(numericMatrix', numericVector')
                      ELSE productVector
  /\ IF callSvd
     THEN LET memo == svdMemo(numericMatrix', outcome)
          IN  /\ svdArg' = numericMatrix'
              /\ svdReturn' = outcome
              /\ svdResult' = memo.value
              /\ crashed' = memo.raised
     ELSE UNCHANGED <<svdArg, svdReturn, svdResult, crashed>>
  /\ vtVector' = vtVectorMemo(svdResult', numericVector')
  /\ sigmaVector' = sigmaVectorMemo(svdResult', vtVector')
  /\ uVector' = uVectorMemo(svdResult', sigmaVector')

(* One render of Home.  The memoised values are pure functions of their    *)
(* dependencies, so recomputing one whose dependencies did not change      *)
(* gives the value it holds; only SVD is called anew, and only when        *)
(* numericMatrix is a new array (callSvd).                                 *)
Render(callSvd, outcome) ==
  /\ numericMatrix' = toNumericMatrix(matrixValues')
  /\ numericVector' = [i \in DOMAIN vectorValues' |-> parseCellValue(vectorValues'[i])]
  /\ productVector' = multiplyMatrixVector(numericMatrix', numericVector')
  /\ IF callSvd
     THEN LET memo == svdMemo(numericMatrix', outcome)
          IN  /\ svdArg' = numericMatrix'
              /\ svdReturn' = outcome
              /\ svdResult' = memo.value
              /\ crashed' = memo.raised
     ELSE UNCHANGED <<svdArg, svdReturn, svdResult, crashed>>
  /\ vtVector' = vtVectorMemo(svdResult', numericVector')
  /\ sigmaVector' = sigmaVectorMemo(svdResult', vtVector')
  /\ uVector' = uVectorMemo(svdResult', sigmaVector')

\* useState<PlotKey | null>: null
NoPlot == "null"

PlotKeys == {"original", "steps"}

\* no effect of FullScreenPlot has run yet
NotSaved == "undefined"

\* typeof document !== "undefined", in the browser
canRender == TRUE

\* the cleanup clears the inline style instead of restoring it
FullScreenPlotEffectClears(wasOpen, isOpen, overflow, saved) ==
  IF ~canRender \/ wasOpen = isOpen
  THEN [overflow |-> overflow, saved |-> saved]
  ELSE IF isOpen THEN [overflow |-> "hidden", saved |-> overflow]
  ELSE [overflow |-> "", saved |-> saved]

\* the effect of FullScreenPlot (deps [canRender, isOpen]) after a render
\* in which isOpen went from wasOpen to isOpen: the cleanup of the last
\* run when it had opened, then the body when it opens now
FullScreenPlotEffect(wasOpen, isOpen, overflow, saved) ==
  IF ~canRender \/ wasOpen = isOpen
  THEN [overflow |-> overflow, saved |-> saved]
  ELSE IF isOpen THEN [overflow |-> "hidden", saved |-> overflow]
  ELSE [overflow |-> saved, saved |-> saved]

\* the first render, with the default texts
Mount(outcome) ==
  /\ matrixValues = defaultMatrix
  /\ vectorValues = defaultVector
  /\ numericMatrix = toNumericMatrix(matrixValues)
  /\ numericVector = [i \in DOMAIN vectorValues |-> parseCellValue(vectorValues[i])]
  /\ productVector = multiplyMatrixVector(numericMatrix, numericVector)
  /\ svdArg = numericMatrix
  /\ svdReturn = outcome
  /\ svdResult = svdMemo(numericMatrix, outcome).value
  /\ crashed = svdMemo(numericMatrix, outcome).raised
  /\ vtVector = vtVectorMemo(svdResult, numericVector)
  /\ sigmaVector = sigmaVectorMemo(svdResult, vtVector)
  /\ uVector = uVectorMemo(svdResult, sigmaVector)
  /\ edits = 0
  /\ expandedPlot = NoPlot
  /\ previousOverflow = NotSaved

Init ==
  /\ \E outcome \in SvdOutcomes : Mount(outcome)
  /\ bodyOverflow = ""
  /\ call = NoCall

\* onChange of the input of matrix cell (rowIndex, columnIndex)
MatrixCellChange ==
  \E rowIndex \in 1..3, columnIndex \in 1..3, newValue \in CellTexts,
     outcome \in SvdOutcomes :
    /\ ~crashed
    /\ edits < MaxEdits
    /\ edits' = edits + 1
    /\ matrixValues' = setMatrixCell(matrixValues, rowIndex, columnIndex, newValue)
    /\ UNCHANGED vectorValues
    /\ Render(TRUE, outcome)
    /\ UNCHANGED plotVars
    /\ UNCHANGED call

\* onChange of the input of vector component index
VectorCellChange ==
  \E index \in 1..3, newValue \in CellTexts :
    /\ ~crashed
    /\ edits < MaxEdits
    /\ edits' = edits + 1
    /\ vectorValues' = setVectorCell(vectorValues, index, newValue)
    /\ UNCHANGED matrixValues
    /\ Render(FALSE, SvdThrows)
    /\ UNCHANGED plotVars
    /\ UNCHANGED call

Next == MatrixCellChange \/ VectorCellChange

Spec == Init /\ [][Next]_vars

-----------------------------------------------------------------------------
(* The full-screen plot: Home with the Expand and Close buttons.           *)

\* the values document.body.style.overflow may have when the page loads
BodyOverflows == {"", "auto", "hidden"}

\* setExpandedPlot(next), the render and the effect of FullScreenPlot
setExpandedPlot(next) ==
  LET effect == FullScreenPlotEffect(expandedPlot # NoPlot, next # NoPlot,
                                     bodyOverflow, previousOverflow)
  IN  /\ expandedPlot' = next
      /\ bodyOverflow' = effect.overflow
      /\ previousOverflow' = effect.saved

\* the key the onExpand of each plot's PlotContainer passes on
onExpand == [original |-> "original", steps |-> "steps"]

\* a click on Expand in the PlotContainer of a plot
ExpandPlotOf(plot) ==
  /\ ~crashed
  /\ setExpandedPlot(onExpand[plot])
  /\ UNCHANGED <<dataVars, call>>

ExpandPlot == \E plot \in PlotKeys : ExpandPlotOf(plot)

\* onClose of FullScreenPlot: the Close button exists while it is open
ClosePlot ==
  /\ ~crashed
  /\ expandedPlot # NoPlot
  /\ setExpandedPlot(NoPlot)
  /\ UNCHANGED <<dataVars, call>>

PlotInit ==
  /\ \E outcome \in SvdOutcomes : Mount(outcome)
  /\ bodyOverflow \in BodyOverflows
  /\ call = NoCall

PlotNext == ExpandPlot \/ ClosePlot \/ VectorCellChange

PlotSpec == PlotInit /\ [][PlotNext]_vars

-----------------------------------------------------------------------------
(* The numeric core applied to enumerated inputs: one call per behaviour,  *)
(* its arguments drawn in the initial state, its result (for transpose,    *)
(* also the result of transposing the result) appended to call.ret.        *)

\* the sequences over S of length at most n
SeqsUpTo(S, n) == UNION { [1..len -> S] : len \in 0..n }

\* the characters of the enumerated texts
Chars == {"0", "1", "-", ".", "e", "a", " "}

TextEmpty == <<>>
TextAbc == <<"a", "b", "c">>
TextMinus == <<"-">>
TextNaN == <<"N", "a", "N">>
TextInfinity == InfinityText
TextPi == <<"3", ".", "1", "4">>
TextMinus2 == <<"-", "2">>

\* the texts the specification names, a negative Infinity, a literal too
\* large for a double and one with a numeric prefix
ExampleTexts ==
  { TextEmpty, TextAbc, TextMinus, TextNaN, TextInfinity, TextPi, TextMinus2,
    <<"-">> \o InfinityText, <<"1", "e", "9", "9", "9">>,
    <<"2", "e", "3", "0", "8">>, <<"1", "2", "p", "x">> }

Texts == SeqsUpTo(Chars, MaxLen) \cup ExampleTexts

\* the entries of the enumerated matrices and vectors
Entries == { Num(-1), Num(2) }

Vectors == SeqsUpTo(Entries, MaxCols)

\* the r x c matrices, r <= MaxRows and c <= MaxCols
RectMatrices ==
  UNION { [1..r -> [1..c -> Entries]] : r \in 0..MaxRows, c \in 0..MaxCols }

\* the arrays of at most MaxRows rows of any lengths up to MaxCols
RaggedMatrices == SeqsUpTo(Vectors, MaxRows)

IsRect(matrix) ==
  \A r \in DOMAIN matrix : Len(matrix[r]) = Len(matrix[1])

Vector100 == <<Num(1), Num(0), Num(0)>>

Matrix2x3 ==
  << <<Num(1), Num(2), Num(3)>>,
     <<Num(4), Num(5), Num(6)>> >>

Vector2 == <<Num(1), Dec(5, -1)>>

Diagonal531 == <<Num(5), Num(3), Num(1)>>

ParseCalls ==
  { [fn |-> "parseCellValue", arg |-> <<t>>, ret |-> <<>>] : t \in Texts }

MultiplyCalls ==
  { [fn |-> "multiplyMatrixVector", arg |-> <<m, v>>, ret |-> <<>>] :
      m \in RectMatrices, v \in Vectors }
  \cup { [fn |-> "multiplyMatrixVector", arg |-> <<Identity3, Vector100>>,
          ret |-> <<>>],
         [fn |-> "multiplyMatrixVector", arg |-> <<Matrix2x3, Vector2>>,
          ret |-> <<>>] }

TransposeCalls ==
  { [fn |-> "transpose", arg |-> <<m>>, ret |-> <<>>] :
      m \in RaggedMatrices \cup {Identity3, RotX} }

SigmaCalls ==
  { [fn |-> "buildSigmaMatrix", arg |-> <<d, r, c>>, ret |-> <<>>] :
      d \in Vectors, r \in 0..MaxCols, c \in 0..MaxCols }
  \cup { [fn |-> "buildSigmaMatrix", arg |-> <<Diagonal531, 3, 3>>,
          ret |-> <<>>] }

\* 1.23456, ties at the 4th decimal of either sign, values that round to
\* the next integer, values with grouped integer digits, -0.00001
ExampleNumbers ==
  { Dec(123456, -5), Dec(3125, -5), Dec(-3125, -5), Dec(99995, -5),
    Dec(999999995, -5), Dec(12345675, -4), Dec(-1234567, -2),
    Dec(-1, -5) }

\* the numbers formatted: up to MaxMantissa in either sign, with up to
\* MaxDecimals decimals
FormatInputs ==
  { Dec(sign * m, e) : sign \in {-1, 1}, m \in 0..MaxMantissa,
                       e \in (-MaxDecimals)..1 }
  \cup ExampleNumbers

FormatCalls ==
  { [fn |-> "formatNumber", arg |-> <<x>>, ret |-> <<>>] : x \in FormatInputs }

CoreInit ==
  /\ Mount(SvdThrows)
  /\ bodyOverflow = ""
  /\ call \in ParseCalls \cup MultiplyCalls \cup TransposeCalls \cup SigmaCalls
              \cup FormatCalls

CallParseCellValue ==
  /\ call.fn = "parseCellValue" /\ call.ret = <<>>
  /\ call' = [call EXCEPT !.ret = <<parseCellValue(call.arg[1])>>]
  /\ UNCHANGED pageVars

CallMultiplyMatrixVector ==
  /\ call.fn = "multiplyMatrixVector" /\ call.ret = <<>>
  /\ call' = [call EXCEPT
                !.ret = <<multiplyMatrixVector(call.arg[1], call.arg[2])>>]
  /\ UNCHANGED pageVars

CallTranspose ==
  /\ call.fn = "transpose" /\ call.ret = <<>>
  /\ call' = [call EXCEPT !.ret = <<transpose(call.arg[1])>>]
  /\ UNCHANGED pageVars

\* transpose applied to the result of transpose
CallTransposeAgain ==
  /\ call.fn = "transpose" /\ Len(call.ret) = 1
  /\ call' = [call EXCEPT !.ret = Append(call.ret, transpose(call.ret[1]))]
  /\ UNCHANGED pageVars

CallBuildSigmaMatrix ==
  /\ call.fn = "buildSigmaMatrix" /\ call.ret = <<>>
  /\ call' = [call EXCEPT
                !.ret = <<buildSigmaMatrix(call.arg[1], call.arg[2], call.arg[3])>>]
  /\ UNCHANGED pageVars

CallFormatNumber ==
  /\ call.fn = "formatNumber" /\ call.ret = <<>>
  /\ call' = [call EXCEPT !.ret = <<formatNumber(call.arg[1])>>]
  /\ UNCHANGED pageVars

CoreNext ==
  \/ CallParseCellValue
  \/ CallMultiplyMatrixVector
  \/ CallTranspose
  \/ CallTransposeAgain
  \/ CallBuildSigmaMatrix
  \/ CallFormatNumber

CoreSpec == CoreInit /\ [][CoreNext]_vars

-----------------------------------------------------------------------------
(* Properties of the numeric core, checked under CoreSpec.                 *)

\* C1: parseCellValue returns a finite number for every text: the decimal
\* parse of the text when that is finite and 0 otherwise; "", "abc", "-",
\* "NaN" and "Infinity" give 0, "3.14" gives 3.14 and "-2" gives -2.
C1_ParseCellValueTotal ==
  (call.fn = "parseCellValue" /\ call.ret # <<>>) =>
    LET text == call.arg[1]
        result == call.ret[1]
        parsed == parseFloat(text)
    IN  /\ NumberIsFinite(result)
        /\ result = IF NumberIsFinite(parsed) THEN parsed ELSE Num(0)
        /\ text \in {TextEmpty, TextAbc, TextMinus, TextNaN, TextInfinity}
             => result = Num(0)
        /\ text = TextPi => result = Dec(314, -2)
        /\ text = TextMinus2 => result = Num(-2)

\* C1 witness: "Infinity" has been parsed, to 0.
C1_InfinityParsed ==
  /\ call.fn = "parseCellValue"
  /\ call.arg = <<TextInfinity>>
  /\ call.ret = <<Num(0)>>

\* the sum over the columns c >= n of row[c] * vector[c], vector[c] taken
\* as 0 past the end of the vector; columns counted from 1
RECURSIVE DotZeroFill(_, _, _)
DotZeroFill(row, vector, n) ==
  IF n > Len(row) THEN Num(0)
  ELSE NumAdd(NumMul(row[n], IF n <= Len(vector) THEN vector[n] ELSE Num(0)),
              DotZeroFill(row, vector, n + 1))

\* C6: multiplyMatrixVector of an R x C matrix and a vector of any length
\* has exactly R elements, element r being the sum over the columns c of
\* matrix[r][c] * vector[c] with vector[c] = 0 out of range; the 2 x 3
\* matrix times the vector of length 2 gives a vector of length 2, and
\* identity * [1,0,0] = [1,0,0].
C6_MultiplyZeroFill ==
  (call.fn = "multiplyMatrixVector" /\ call.ret # <<>>) =>
    LET matrix == call.arg[1]
        vector == call.arg[2]
        out == call.ret[1]
    IN  /\ Len(out) = Len(matrix)
        /\ \A r \in DOMAIN matrix : out[r] = DotZeroFill(matrix[r], vector, 1)
        /\ (matrix = Identity3 /\ vector = Vector100) => out = Vector100
        /\ (matrix = Matrix2x3 /\ vector = Vector2)
             => out = <<Num(2), Dec(65, -1)>>

\* C6 witness: the 2 x 3 matrix has been multiplied by the vector of
\* length 2.
C6_ShortVectorMultiplied ==
  /\ call.fn = "multiplyMatrixVector"
  /\ call.arg = <<Matrix2x3, Vector2>>
  /\ Len(call.ret) = 1
  /\ Len(call.ret[1]) = 2

\* C7: transpose of an R x C matrix is the C x R matrix T with
\* T[j][i] = M[i][j]; of a matrix of no rows it is empty.
C7_TransposeContract ==
  (call.fn = "transpose" /\ call.ret # <<>> /\ IsRect(call.arg[1])) =>
    LET M == call.arg[1]
        T == call.ret[1]
        R == Len(M)
        C == IF R = 0 THEN 0 ELSE Len(M[1])
    IN  /\ Len(T) = C
        /\ \A j \in 1..C :
             /\ Len(T[j]) = R
             /\ \A i \in 1..R : T[j][i] = M[i][j]
        /\ R = 0 => T = <<>>

\* C7 witness: a 2 x 1 matrix of two different entries has been transposed
\* to a 1 x 2 matrix.
C7_ColumnTransposed ==
  /\ call.fn = "transpose"
  /\ call.arg = << << <<Num(-1)>>, <<Num(2)>> >> >>
  /\ Len(call.ret) >= 1
  /\ call.ret[1] = << <<Num(-1), Num(2)>> >>

\* C8 as stated: transpose(transpose(M)) = M for any M, ragged matrices and
\* matrices whose rows have no columns included.
C8_InvolutionAnyMatrix ==
  (call.fn = "transpose" /\ Len(call.ret) = 2) => call.ret[2] = call.arg[1]

\* C8 amended: transpose(transpose(M)) = M, in shape and element-wise, for
\* every rectangular M that has no rows or at least one column.
C8_InvolutionRectangular ==
  ( /\ call.fn = "transpose"
    /\ Len(call.ret) = 2
    /\ IsRect(call.arg[1])
    /\ (Len(call.arg[1]) = 0 \/ Len(call.arg[1][1]) >= 1) )
  => call.ret[2] = call.arg[1]

\* C8 witness: a 2 x 1 matrix has been transposed twice and is back.
C8_ColumnTransposedTwice ==
  /\ call.fn = "transpose"
  /\ call.arg = << << <<Num(2)>>, <<Num(-1)>> >> >>
  /\ Len(call.ret) = 2
  /\ call.ret[1] = << <<Num(2), Num(-1)>> >>
  /\ call.ret[2] = call.arg[1]

\* C9: buildSigmaMatrix(diagonal, R, C) has exactly R rows of C columns,
\* entry (i,i) being diagonal[i] where the list has one and every other
\* entry 0; buildSigmaMatrix([5,3,1], 3, 3) = [[5,0,0],[0,3,0],[0,0,1]].
C9_BuildSigmaContract ==
  (call.fn = "buildSigmaMatrix" /\ call.ret # <<>>) =>
    LET diagonal == call.arg[1]
        R == call.arg[2]
        C == call.arg[3]
        S == call.ret[1]
    IN  /\ Len(S) = R
        /\ \A i \in 1..R :
             /\ Len(S[i]) = C
             /\ \A j \in 1..C :
                  S[i][j] = IF i = j /\ i <= Len(diagonal) THEN diagonal[i]
                            ELSE Num(0)
        /\ (diagonal = Diagonal531 /\ R = 3 /\ C = 3)
             => S = << <<Num(5), Num(0), Num(0)>>,
                       <<Num(0), Num(3), Num(0)>>,
                       <<Num(0), Num(0), Num(1)>> >>

\* C9 witness: a 2 x 2 sigma has been built from a diagonal list of one
\* value, so that a diagonal entry past the end of the list was written.
C9_ShortDiagonalBuilt ==
  /\ call.fn = "buildSigmaMatrix"
  /\ call.arg = << <<Num(2)>>, 2, 2 >>
  /\ call.ret = << << <<Num(2), Num(0)>>, <<Num(0), Num(0)>> >> >>

-----------------------------------------------------------------------------
(* Properties of the Home component, checked under Spec.                   *)

\* C2: no exception escapes the SVD orchestrator: when the decomposition
\* raised, svdResult is null, and otherwise it is the triple
\* {u, sigma, vt}.
C2_SvdFailureIsAbsence ==
  /\ ~crashed
  /\ svdReturn.throws => svdResult = Null
  /\ ~svdReturn.throws =>
       /\ svdResult # Null
       /\ DOMAIN svdResult = {"u", "sigma", "vt"}
       /\ svdResult.u = svdReturn.u

\* C2 witness: the decomposition raised on a matrix the user edited, and
\* the page holds null.
C2_ThrowAfterEdit ==
  /\ edits > 0
  /\ matrixValues # defaultMatrix
  /\ svdReturn.throws
  /\ svdResult = Null
  /\ ~crashed

\* C3: whenever svdResult is absent, each of the three chain stages is
\* [0,0,0], whatever the vector, and no exception was raised.
C3_AbsentSvdZeroChain ==
  svdResult = Null =>
    /\ vtVector = Zero3
    /\ sigmaVector = Zero3
    /\ uVector = Zero3
    /\ ~crashed

\* C3 witness: svdResult is absent while the vector, edited by the user, is
\* not zero, and the chain is zero.
C3_AbsentWithEditedVector ==
  /\ svdResult = Null
  /\ numericVector = <<Num(1), Num(2), Dec(-5, -1)>>
  /\ uVector = Zero3

\* C4: whenever svdResult is present, the chain is computed in order from
\* its factors: vtVector = Vt x, sigmaVector = Sigma vtVector,
\* uVector = U sigmaVector.
C4_ChainInOrder ==
  svdResult # Null =>
    /\ vtVector = multiplyMatrixVector(svdResult.vt, numericVector)
    /\ sigmaVector = multiplyMatrixVector(svdResult.sigma, vtVector)
    /\ uVector = multiplyMatrixVector(svdResult.u, sigmaVector)

\* C4 witness: svdResult is present and each later stage differs from what
\* the same factor gives when applied to x or to an earlier stage.
C4_StagesDistinguished ==
  /\ svdResult # Null
  /\ vtVector # numericVector
  /\ sigmaVector # multiplyMatrixVector(svdResult.sigma, numericVector)
  /\ uVector # multiplyMatrixVector(svdResult.u, vtVector)
  /\ uVector # multiplyMatrixVector(svdResult.u, numericVector)

\* C10: in every reachable state the text grid and the numeric matrix have
\* exactly 3 rows of exactly 3 entries, the vector has exactly 3 entries,
\* and each numeric entry is parseCellValue of the text at its position.
C10_GridShape ==
  /\ DOMAIN matrixValues = 1..3
  /\ DOMAIN numericMatrix = 1..3
  /\ \A r \in 1..3 :
       /\ DOMAIN matrixValues[r] = 1..3
       /\ DOMAIN numericMatrix[r] = 1..3
       /\ \A c \in 1..3 :
            numericMatrix[r][c] = parseCellValue(matrixValues[r][c])
  /\ DOMAIN vectorValues = 1..3
  /\ DOMAIN numericVector = 1..3
  /\ \A i \in 1..3 : numericVector[i] = parseCellValue(vectorValues[i])

\* C10 witness: a matrix cell and a vector cell have both been edited, one
\* of them to a text that is no number.
C10_BothEdited ==
  /\ edits = 2
  /\ matrixValues[2][3] = <<"-", ".", "5">>
  /\ numericMatrix[2][3] = Dec(-5, -1)
  /\ vectorValues[1] = <<>>
  /\ numericVector[1] = Num(0)

\* the pipeline parse -> multiply -> SVD -> chain run on a snapshot of the
\* texts, given what the call of SVD on the parsed matrix did
Pipeline(matrixText, vectorText, outcome) ==
  LET matrix == toNumericMatrix(matrixText)
      vector == [i \in DOMAIN vectorText |-> parseCellValue(vectorText[i])]
      result == svdMemo(matrix, outcome).value
      v1 == vtVectorMemo(result, vector)
      v2 == sigmaVectorMemo(result, v1)
      v3 == uVectorMemo(result, v2)
  IN  [matrix |-> matrix, vector |-> vector,
       product |-> multiplyMatrixVector(matrix, vector),
       svd |-> result, chain |-> <<v1, v2, v3>>]

\* C11: after any sequence of edits no derived value is stale: the product,
\* the SVD result and the three chain vectors are what the pipeline gives
\* on the current texts, and the SVD held is that of the current matrix.
C11_NothingStale ==
  LET fresh == Pipeline(matrixValues, vectorValues, svdReturn)
  IN  /\ numericMatrix = fresh.matrix
      /\ numericVector = fresh.vector
      /\ productVector = fresh.product
      /\ svdArg = numericMatrix
      /\ svdResult = fresh.svd
      /\ <<vtVector, sigmaVector, uVector>> = fresh.chain

\* C11 witness: a matrix cell and then (or before) a vector cell were
\* edited, and the product held is that of the edited matrix and vector.
C11_ProductOfEdited ==
  /\ edits = 2
  /\ matrixValues[1][1] = <<"2">>
  /\ vectorValues[2] = <<"2">>
  /\ svdResult # Null
  /\ productVector = <<Num(2), Num(2), Num(0)>>

\* a <= b of two finite numbers
NumLeq(a, b) ==
  LET lo == IF a.e < b.e THEN a.e ELSE b.e
  IN  a.m * Pow10(a.e - lo) <= b.m * Pow10(b.e - lo)

\* on success U is the returned u, Vt the transpose of the returned v and
\* Sigma the 3 x 3 matrix with the returned singular values, in the order
\* returned, on its diagonal and 0 elsewhere
FactorsAsReturned ==
  /\ svdResult.u = svdReturn.u
  /\ DOMAIN svdResult.vt = 1..3
  /\ \A i \in 1..3 :
       /\ DOMAIN svdResult.vt[i] = 1..3
       /\ \A j \in 1..3 : svdResult.vt[i][j] = svdReturn.v[j][i]
  /\ DOMAIN svdResult.sigma = 1..3
  /\ \A i \in 1..3 :
       /\ DOMAIN svdResult.sigma[i] = 1..3
       /\ \A j \in 1..3 :
            svdResult.sigma[i][j] =
              IF i = j THEN svdReturn.q[i] ELSE Num(0)

-----------------------------------------------------------------------------
(* What Home renders from its state.  An element is named by its label, a  *)
(* conditional block `svdResult && (...)` is there exactly when svdResult  *)
(* is not null.                                                            *)

\* the arrow drawn whatever its length
VectorArrowAlways(vector) == TRUE

\* Vector3.lengthSq of the direction VectorArrow builds
lengthSq(vector) ==
  LET x == Coalesce(At(vector, 0), Num(0))
      y == Coalesce(At(vector, 1), Num(0))
      z == Coalesce(At(vector, 2), Num(0))
  IN  NumAdd(NumAdd(NumMul(x, x), NumMul(y, y)), NumMul(z, z))

\* VectorArrow returns an arrow, not null
VectorArrow(vector) == lengthSq(vector) # Num(0)

\* the children of the "Matrix x Vector Output" card, in order
OutputCardContent ==
  <<"Output Vector">>
  \o (IF svdResult # Null
      THEN <<"Cross-check", "Vt . x", "Sigma . (Vt . x)", "U . Sigma . Vt . x">>
      ELSE <<>>)

\* the matrices of the "Singular Value Decomposition" card, none when the
\* card is not rendered
SvdCardContent ==
  IF svdResult # Null THEN <<"U", "Sigma", "Vt">> ELSE <<>>

Arrow(stage, vector) == [stage |-> stage, vector |-> vector]

IsDrawn(arrow) == VectorArrow(arrow.vector)

\* the arrows drawn in the scene of the "original" plot
renderOriginalScene ==
  SelectSeq(<<Arrow("x", numericVector)>>, IsDrawn)

\* the arrows drawn in the scene of the "steps" plot
renderStepsScene ==
  SelectSeq(<<Arrow("x", numericVector), Arrow("Vt . x", vtVector),
              Arrow("Sigma . Vt . x", sigmaVector),
              Arrow("U . Sigma . Vt . x", uVector)>>, IsDrawn)

\* the values VectorDisplay hands to formatNumber, which calls a method on
\* each and so throws on undefined or null
DisplayedValues ==
  LET shown == IF svdResult # Null
               THEN productVector \o vtVector \o sigmaVector \o uVector
               ELSE productVector
  IN  { shown[i] : i \in DOMAIN shown }

\* C13: whenever the SVD result is absent, the cross-check block and the
\* U/Sigma/Vt card are not rendered, no arrow of a chain stage is drawn,
\* the direct product is displayed, and rendering raises nothing.
C13_AbsentSvdHidden ==
  svdResult = Null =>
    /\ OutputCardContent = <<"Output Vector">>
    /\ SvdCardContent = <<>>
    /\ \A i \in DOMAIN renderStepsScene : renderStepsScene[i].stage = "x"
    /\ Len(productVector) = 3
    /\ \A value \in DisplayedValues : value.k \in {"fin", "nan", "inf"}
    /\ ~crashed

\* C13 witness: the SVD of an edited matrix threw; the product of the
\* edited matrix is displayed and the only arrow drawn is the input's.
C13_AbsentAfterEdit ==
  /\ svdResult = Null
  /\ matrixValues[1][1] = <<"2">>
  /\ productVector = <<Num(2), Num(0), Num(0)>>
  /\ renderStepsScene = <<Arrow("x", numericVector)>>
  /\ renderOriginalScene = renderStepsScene

-----------------------------------------------------------------------------
(* formatNumber.                                                           *)

\* x rounded at the given decimal place, halves away from zero
RoundHalfAway(x, places) ==
  IF x.e >= -places THEN x
  ELSE LET p == Pow10(-x.e - places)
           n == (2 * Abs(x.m) + p) \div (2 * p)
       IN  Dec((IF x.m < 0 THEN -n ELSE n), -places)

\* the number of characters after the decimal point of a text
FractionDigits(text) ==
  IF \E i \in DOMAIN text : text[i] = "."
  THEN Len(text) - (CHOOSE i \in DOMAIN text : text[i] = ".")
  ELSE 0

NotComma(c) == c # ","

\* the number a formatted text denotes
TextValue(text) == parseFloat(SelectSeq(text, NotComma))

-----------------------------------------------------------------------------
(* Edits.                                                                  *)

\* the text grid after the step differs from the one before in cell
\* (rowIndex, columnIndex) at most, and the vector texts not at all
MatrixEditLocal ==
  /\ vectorValues' = vectorValues
  /\ DOMAIN matrixValues' = DOMAIN matrixValues
  /\ \E rowIndex \in 1..3, columnIndex \in 1..3 :
       /\ matrixValues'[rowIndex][columnIndex] \in CellTexts
       /\ \A r \in 1..3 :
            /\ DOMAIN matrixValues'[r] = DOMAIN matrixValues[r]
            /\ \A c \in 1..3 :
                 (r # rowIndex \/ c # columnIndex)
                   => matrixValues'[r][c] = matrixValues[r][c]

\* the vector texts after the step differ from those before in component
\* index at most; the text grid, the numeric matrix and the SVD result not
\* at all
VectorEditLocal ==
  /\ matrixValues' = matrixValues
  /\ numericMatrix' = numericMatrix
  /\ svdResult' = svdResult
  /\ DOMAIN vectorValues' = DOMAIN vectorValues
  /\ \E index \in 1..3 :
       /\ vectorValues'[index] \in CellTexts
       /\ \A i \in 1..3 : i # index => vectorValues'[i] = vectorValues[i]

\* C16: an edit of a matrix cell replaces that cell's text and leaves the
\* other eight cells and the three vector cells as they were; an edit of a
\* vector cell replaces that cell and leaves the other two, the matrix
\* texts, the numeric matrix and the SVD result as they were.
\* (A step of Spec that is not an edit of a vector cell is an edit of a
\* matrix cell.)
C16_EditsLocal ==
  [][ /\ IF VectorCellChange THEN VectorEditLocal ELSE MatrixEditLocal
      /\ matrixValues' # matrixValues => MatrixEditLocal
      /\ vectorValues' # vectorValues => VectorEditLocal ]_vars

\* C16 witness: matrix cell (2,3) and vector cell 3 have been edited, every
\* other text is the default one, and the SVD result is held.
C16_TwoCellsEdited ==
  /\ edits = 2
  /\ matrixValues = setMatrixCell(defaultMatrix, 2, 3, <<"-", ".", "5">>)
  /\ matrixValues # defaultMatrix
  /\ vectorValues = <<Text1("1"), Text1("0"), <<"2">> >>
  /\ svdResult # Null

-----------------------------------------------------------------------------
(* The full-screen plot.                                                   *)

plotContent ==
  [original |-> [title |-> "Original Vector",
                 renderScene |-> renderOriginalScene],
   steps |-> [title |-> "SVD Transform Steps",
              renderScene |-> renderStepsScene]]

\* what FullScreenPlot returns with the props Home gives it: null, or the
\* portal with its title and the arrows of its scene
FullScreenPlot ==
  LET isOpen == expandedPlot # NoPlot
      title == IF expandedPlot # NoPlot THEN plotContent[expandedPlot].title
               ELSE ""
      renderScene == IF expandedPlot # NoPlot
                     THEN plotContent[expandedPlot].renderScene
                     ELSE Undefined
  IN  IF ~canRender \/ ~isOpen THEN Null
      ELSE [title |-> title, scene |-> renderScene]

\* in every state: the key is one of the three, the overlay is there
\* exactly when it is not null and is that plot's, and the body does not
\* scroll while it is there
PlotStateOk ==
  /\ expandedPlot \in {NoPlot, "original", "steps"}
  /\ FullScreenPlot # Null <=> expandedPlot # NoPlot
  /\ expandedPlot = "original" =>
       FullScreenPlot = [title |-> "Original Vector",
                         scene |-> renderOriginalScene]
  /\ expandedPlot = "steps" =>
       FullScreenPlot = [title |-> "SVD Transform Steps",
                         scene |-> renderStepsScene]
  /\ expandedPlot # NoPlot => bodyOverflow = "hidden"

\* in every step: Expand sets the key to a plot and Close to null; opening
\* saves the overflow of the body, nothing changes what was saved while
\* the overlay is open, and closing puts it back
PlotStepOk ==
  /\ \A plot \in PlotKeys : ExpandPlotOf(plot) => expandedPlot' = plot
  /\ ClosePlot => expandedPlot' = NoPlot
  /\ (expandedPlot = NoPlot /\ expandedPlot' # NoPlot) =>
       previousOverflow' = bodyOverflow
  /\ (expandedPlot # NoPlot /\ expandedPlot' # NoPlot) =>
       previousOverflow' = previousOverflow
  /\ (expandedPlot # NoPlot /\ expandedPlot' = NoPlot) =>
       bodyOverflow' = previousOverflow
  /\ (expandedPlot = NoPlot /\ expandedPlot' = NoPlot) =>
       bodyOverflow' = bodyOverflow

\* C17: expandedPlot is always null, "original" or "steps"; the overlay is
\* rendered exactly when it is not null, with the title and scene of that
\* plot; Expand sets it to the plot and Close to null; the overflow of the
\* body is "hidden" while the overlay is open and, after Close, is again
\* what it was before the overlay was opened.
C17_FullScreenPlot == [](PlotStateOk) /\ [][PlotStepOk]_vars

\* C17 witness: the overlay has been opened on a body whose overflow was
\* "auto" and closed again, and the overflow is "auto".
C17_ClosedAndRestored ==
  /\ expandedPlot = NoPlot
  /\ previousOverflow = "auto"
  /\ bodyOverflow = "auto"
  /\ FullScreenPlot = Null

====
